---- MODULE Spec2Model ----
(***************************************************************************)
(* Model of pragma/core/resolve/literal.py: the literal/AST bridge         *)
(* (make_ast_from_literal, is_wrappable) and the literal-folding resolver  *)
(* (_resolve_literal and its per-node handlers, resolve_literal).          *)
(*                                                                         *)
(* Python values are records tagged by field k, AST nodes are records      *)
(* tagged by field t, and a raised exception is a record with field exc.   *)
(* Floats are modelled as exact rationals num/den (den > 0), with NaN as   *)
(* the float whose den is 0.                                               *)
(***************************************************************************)
EXTENDS Integers, Sequences, FiniteSets, TLC

VARIABLES
    lit,      \* the Python value handed to the bridge (NoInput when a tree was given)
    input,    \* the tree as the caller built it, before any call
    node,     \* the caller's tree object as it is now (folding narrows BoolOps in place)
    ctxt,     \* the name-resolution context of the request
    op,       \* the last public entry point called
    result,   \* what that call returned, or the exception it raised
    invoked,  \* the functions the fold invoked
    pc        \* "input" | "wrapped" | "done"

vars == <<lit, input, node, ctxt, op, result, invoked, pc>>

-----------------------------------------------------------------------------
(* Python values *)

IntV(i) == [k |-> "int", i |-> i]
BoolV(b) == [k |-> "bool", b |-> b]
StrV(s) == [k |-> "str", s |-> s]
NoneV == [k |-> "none"]
FloatV(n, d) == [k |-> "float", num |-> n, den |-> d]
NaN == FloatV(0, 0)
\* a finite float that is no ratio of small integers (2 ** 0.5)
Inexact == FloatV(1, 0)
ListV(items) == [k |-> "list", items |-> items]
TupleV(items) == [k |-> "tuple", items |-> items]
SetV(items) == [k |-> "set", items |-> items]
DictV(keys, vals) == [k |-> "dict", keys |-> keys, vals |-> vals]
Func(name) == [k |-> "func", name |-> name]
Object == [k |-> "object"]
\* a complex number: a negative number raised to a fractional power
Complex == [k |-> "complex"]

Raise(e) == [exc |-> e]
NoInput == [none |-> TRUE]

IsRaise(x) == "exc" \in DOMAIN x
\* isinstance(x, ast.AST)
IsAST(x) == "t" \in DOMAIN x
IsValue(x) == "k" \in DOMAIN x

-----------------------------------------------------------------------------
(* Python's semantics of the values: numbers, equality, truth, hashing *)

Abs(i) == IF i < 0 THEN -i ELSE i

RECURSIVE Gcd(_, _)
Gcd(a, b) == IF b = 0 THEN a ELSE Gcd(b, a % b)

\* floor(a / b) and a - b * floor(a / b) for any b # 0, as Python's // and % on ints
FloorDivInt(a, b) == IF b > 0 THEN a \div b ELSE (-a) \div (-b)
ModInt(a, b) == a - b * FloorDivInt(a, b)

RECURSIVE PowInt(_, _)
PowInt(a, e) == IF e = 0 THEN 1 ELSE a * PowInt(a, e - 1)

\* isinstance(v, (int, float)): bool is a subclass of int
IsNum(v) == IsValue(v) /\ v.k \in {"int", "bool", "float"}
\* isinstance(v, int)
IsIntLike(v) == IsValue(v) /\ v.k \in {"int", "bool"}
IsNaN(v) == IsValue(v) /\ v.k = "float" /\ v.den = 0 /\ v.num = 0
IsInexact(v) == IsValue(v) /\ v.k = "float" /\ v.den = 0 /\ v.num # 0

\* int(v) of an int or a bool
IntOf(v) == IF v.k = "bool" THEN (IF v.b THEN 1 ELSE 0) ELSE v.i
NumOf(v) == IF v.k = "float" THEN v.num ELSE IntOf(v)
DenOf(v) == IF v.k = "float" THEN v.den ELSE 1

\* the float n/d in lowest terms
MkFloat(n, d) ==
    LET s == IF d < 0 THEN -1 ELSE 1
        g == Gcd(Abs(n), Abs(d))
    IN  FloatV((s * n) \div g, (s * d) \div g)

\* the int when the operands are ints, else the float
MkNum(n, d, asInt) == IF asInt THEN IntV(n \div d) ELSE MkFloat(n, d)

RECURSIVE PyEq(_, _)
\* a == b
PyEq(a, b) ==
    IF ~IsValue(a) \/ ~IsValue(b) THEN FALSE
    ELSE IF IsNum(a) /\ IsNum(b)
        THEN DenOf(a) # 0 /\ DenOf(b) # 0 /\ NumOf(a) * DenOf(b) = NumOf(b) * DenOf(a)
    ELSE IF a.k # b.k THEN FALSE
    ELSE CASE a.k = "str" -> a.s = b.s
           [] a.k = "none" -> TRUE
           [] a.k \in {"list", "tuple"} ->
                /\ Len(a.items) = Len(b.items)
                /\ \A i \in 1..Len(a.items) : PyEq(a.items[i], b.items[i])
           [] a.k = "set" ->
                /\ \A i \in 1..Len(a.items) : \E j \in 1..Len(b.items) : PyEq(a.items[i], b.items[j])
                /\ \A j \in 1..Len(b.items) : \E i \in 1..Len(a.items) : PyEq(a.items[i], b.items[j])
           [] a.k = "dict" ->
                /\ Len(a.keys) = Len(b.keys)
                /\ \A i \in 1..Len(a.keys) : \E j \in 1..Len(b.keys) :
                      PyEq(a.keys[i], b.keys[j]) /\ PyEq(a.vals[i], b.vals[j])
           [] a.k = "func" -> a.name = b.name
           [] OTHER -> TRUE

\* bool(v)
Truthy(v) ==
    IF ~IsValue(v) THEN TRUE
    ELSE CASE v.k = "int" -> v.i # 0
           [] v.k = "bool" -> v.b
           [] v.k = "float" -> v.num # 0 \/ v.den = 0
           [] v.k = "str" -> v.s # ""
           [] v.k = "none" -> FALSE
           [] v.k \in {"list", "tuple", "set"} -> Len(v.items) > 0
           [] v.k = "dict" -> Len(v.keys) > 0
           [] OTHER -> TRUE

RECURSIVE Hashable(_)
\* hash(v) succeeds
Hashable(v) ==
    IF ~IsValue(v) THEN TRUE
    ELSE CASE v.k \in {"list", "set", "dict"} -> FALSE
           [] v.k = "tuple" -> \A i \in 1..Len(v.items) : Hashable(v.items[i])
           [] OTHER -> TRUE

\* the index of the entry of keys equal to key, 0 when there is none
KeyIndex(keys, key) ==
    IF \E i \in 1..Len(keys) : PyEq(keys[i], key)
    THEN CHOOSE i \in 1..Len(keys) : PyEq(keys[i], key)
    ELSE 0

-----------------------------------------------------------------------------
(* The operator table _collapse_map: each operator tag's Python function *)

BinOps == {"Add", "Sub", "Mult", "Div", "FloorDiv", "Mod", "Pow"}
UnaryOps == {"USub", "UAdd", "Not", "Invert"}
CmpOps == {"Eq", "NotEq", "Lt", "Gt"}

RECURSIVE RepeatStr(_, _)
RepeatStr(s, n) == IF n <= 0 THEN "" ELSE s \o RepeatStr(s, n - 1)

RECURSIVE RepeatSeq(_, _)
RepeatSeq(q, n) == IF n <= 0 THEN <<>> ELSE q \o RepeatSeq(q, n - 1)

\* a op b of two numbers, neither NaN nor inexact
NumBinOp(o, a, b) ==
    LET n1 == NumOf(a)
        d1 == DenOf(a)
        n2 == NumOf(b)
        d2 == DenOf(b)
        ints == IsIntLike(a) /\ IsIntLike(b)
        \* floor(a / b), for b # 0
        q == FloorDivInt(n1 * d2, d1 * n2)
    IN  CASE o = "Add" -> MkNum(n1 * d2 + n2 * d1, d1 * d2, ints)
          [] o = "Sub" -> MkNum(n1 * d2 - n2 * d1, d1 * d2, ints)
          [] o = "Mult" -> MkNum(n1 * n2, d1 * d2, ints)
          [] o = "Div" ->
                IF n2 = 0 THEN Raise("ZeroDivisionError") ELSE MkFloat(n1 * d2, d1 * n2)
          [] o = "FloorDiv" ->
                IF n2 = 0 THEN Raise("ZeroDivisionError") ELSE MkNum(q, 1, ints)
          [] o = "Mod" ->
                IF n2 = 0 THEN Raise("ZeroDivisionError")
                ELSE MkNum(n1 * d2 - n2 * q * d1, d1 * d2, ints)
          [] o = "Pow" ->
                IF d2 = 1
                THEN IF n2 >= 0
                     THEN MkNum(PowInt(n1, n2), PowInt(d1, n2), ints)
                     ELSE IF n1 = 0 THEN Raise("ZeroDivisionError")
                          ELSE MkFloat(PowInt(d1, -n2), PowInt(n1, -n2))
                ELSE IF n1 = d1 THEN FloatV(1, 1)
                ELSE IF n1 = 0
                     THEN (IF n2 > 0 THEN FloatV(0, 1) ELSE Raise("ZeroDivisionError"))
                ELSE IF n1 < 0 THEN Complex
                ELSE Inexact

\* a - b of two sets
SetDiff(a, b) ==
    SetV(SelectSeq(a.items, LAMBDA x : \A j \in 1..Len(b.items) : ~PyEq(x, b.items[j])))

\* _collapse_map[op](a, b) for a binary operator: the value, or what it raises
Collapse2(o, a, b) ==
    IF ~IsValue(a) \/ ~IsValue(b) THEN Raise("TypeError")
    ELSE IF IsNum(a) /\ IsNum(b) THEN
        IF DenOf(a) = 0 \/ DenOf(b) = 0
        THEN (IF o = "Pow" /\ (PyEq(a, IntV(1)) \/ PyEq(b, IntV(0))) THEN FloatV(1, 1)
              ELSE IF o \in {"Div", "FloorDiv", "Mod"} /\ PyEq(b, IntV(0))
                   THEN Raise("ZeroDivisionError")
              ELSE IF IsNaN(a) \/ IsNaN(b) THEN NaN ELSE Inexact)
        ELSE NumBinOp(o, a, b)
    ELSE CASE o = "Add" /\ a.k = "str" /\ b.k = "str" -> StrV(a.s \o b.s)
           [] o = "Add" /\ a.k = b.k /\ a.k \in {"list", "tuple"} ->
                [k |-> a.k, items |-> a.items \o b.items]
           [] o = "Mult" /\ a.k = "str" /\ IsIntLike(b) -> StrV(RepeatStr(a.s, IntOf(b)))
           [] o = "Mult" /\ IsIntLike(a) /\ b.k = "str" -> StrV(RepeatStr(b.s, IntOf(a)))
           [] o = "Mult" /\ a.k \in {"list", "tuple"} /\ IsIntLike(b) ->
                [k |-> a.k, items |-> RepeatSeq(a.items, IntOf(b))]
           [] o = "Mult" /\ IsIntLike(a) /\ b.k \in {"list", "tuple"} ->
                [k |-> b.k, items |-> RepeatSeq(b.items, IntOf(a))]
           [] o = "Sub" /\ a.k = "set" /\ b.k = "set" -> SetDiff(a, b)
           \* a string with no conversion specifier: formatted by a mapping or by ()
           [] o = "Mod" /\ a.k = "str" ->
                IF b.k \in {"list", "dict"} \/ (b.k = "tuple" /\ Len(b.items) = 0)
                THEN a ELSE Raise("TypeError")
           [] OTHER -> Raise("TypeError")

\* _collapse_map[op](a) for a unary operator
Collapse1(o, a) ==
    IF o = "Not" THEN BoolV(~Truthy(a))
    ELSE IF ~IsNum(a) THEN Raise("TypeError")
    ELSE CASE o = "USub" ->
                IF DenOf(a) = 0 THEN a ELSE MkNum(-NumOf(a), DenOf(a), IsIntLike(a))
           [] o = "UAdd" ->
                IF DenOf(a) = 0 THEN a ELSE MkNum(NumOf(a), DenOf(a), IsIntLike(a))
           [] o = "Invert" ->
                IF IsIntLike(a) THEN IntV(-IntOf(a) - 1) ELSE Raise("TypeError")

RECURSIVE SeqLess(_, _, _)
RECURSIVE PyLess(_, _)
\* a < b: the bool, or the TypeError of two kinds that do not order
PyLess(a, b) ==
    IF ~IsValue(a) \/ ~IsValue(b) THEN Raise("TypeError")
    ELSE IF IsNum(a) /\ IsNum(b)
        THEN BoolV(DenOf(a) # 0 /\ DenOf(b) # 0 /\ NumOf(a) * DenOf(b) < NumOf(b) * DenOf(a))
    ELSE IF a.k # b.k THEN Raise("TypeError")
    ELSE CASE a.k = "str" ->
                \* every string of the model is a run of one letter
                BoolV(Len(a.s) < Len(b.s))
           [] a.k \in {"list", "tuple"} -> SeqLess(a.items, b.items, 1)
           [] a.k = "set" -> BoolV(
                /\ \A i \in 1..Len(a.items) : \E j \in 1..Len(b.items) : PyEq(a.items[i], b.items[j])
                /\ \E j \in 1..Len(b.items) : \A i \in 1..Len(a.items) : ~PyEq(a.items[i], b.items[j]))
           [] OTHER -> Raise("TypeError")

\* lexicographic order of two sequences from index i on
SeqLess(p, q, i) ==
    IF i > Len(p) \/ i > Len(q) THEN BoolV(Len(p) < Len(q))
    ELSE IF PyEq(p[i], q[i]) THEN SeqLess(p, q, i + 1)
    ELSE PyLess(p[i], q[i])

\* _collapse_map[op](a, b) for a comparison operator
CollapseCmp(o, a, b) ==
    CASE o = "Eq" -> BoolV(PyEq(a, b))
      [] o = "NotEq" -> BoolV(~PyEq(a, b))
      [] o = "Lt" -> PyLess(a, b)
      [] o = "Gt" -> PyLess(b, a)

-----------------------------------------------------------------------------
(* AST nodes *)

Num(v) == [t |-> "Num", n |-> v]
StrN(s) == [t |-> "Str", s |-> s]
NameConstant(v) == [t |-> "NameConstant", value |-> v]
Name(id) == [t |-> "Name", id |-> id]
ListN(elts) == [t |-> "List", elts |-> elts]
TupleN(elts) == [t |-> "Tuple", elts |-> elts]
SetN(elts) == [t |-> "Set", elts |-> elts]
DictN(keys, values) == [t |-> "Dict", keys |-> keys, values |-> values]
Index(value) == [t |-> "Index", value |-> value]
Slice == [t |-> "Slice"]
Subscript(value, slice) == [t |-> "Subscript", value |-> value, slice |-> slice]
UnaryOp(o, operand) == [t |-> "UnaryOp", op |-> o, operand |-> operand]
BinOp(left, o, right) == [t |-> "BinOp", op |-> o, left |-> left, right |-> right]
BoolOp(o, values) == [t |-> "BoolOp", op |-> o, values |-> values]
Compare(left, ops, comparators) ==
    [t |-> "Compare", left |-> left, ops |-> ops, comparators |-> comparators]
Keyword(arg, value) == [arg |-> arg, value |-> value]
Call(func, args, keywords) == [t |-> "Call", func |-> func, args |-> args, keywords |-> keywords]

\* a value wrapped by the marker CollapsableNode
Collapsable(n) == [k |-> "collapsable", node |-> n]

\* the first exception of a sequence of outcomes, in order
FirstRaise(rs) == rs[CHOOSE i \in 1..Len(rs) : IsRaise(rs[i]) /\ \A j \in 1..(i - 1) : ~IsRaise(rs[j])]
AnyRaise(rs) == \E i \in 1..Len(rs) : IsRaise(rs[i])

-----------------------------------------------------------------------------
(* The literal/node bridge *)

\* lit2 != lit of make_ast_from_literal: the narrowed number against the literal
NarrowingDiffers(lit2, v) == IF IsInexact(v) THEN FALSE ELSE ~PyEq(lit2, v)

RECURSIVE make_ast_from_literal(_)

MakeAll(q) == [i \in 1..Len(q) |-> make_ast_from_literal(q[i])]

SeqNode(kind, res) ==
    IF AnyRaise(res) THEN FirstRaise(res)
    ELSE IF kind = "list" THEN ListN(res) ELSE TupleN(res)

DictNode(ks, vs) ==
    IF AnyRaise(ks) THEN FirstRaise(ks)
    ELSE IF AnyRaise(vs) THEN FirstRaise(vs)
    ELSE DictN(ks, vs)

NumNode(v, lit2) == IF NarrowingDiffers(lit2, v) THEN Raise("AssertionError") ELSE Num(lit2)

\* the AST of a literal, the node when one is given, or the exception raised
make_ast_from_literal(v) ==
    IF IsAST(v) THEN v
    ELSE IF v.k = "collapsable" THEN make_ast_from_literal(v.node)
    ELSE IF v.k \in {"list", "tuple"} THEN SeqNode(v.k, MakeAll(v.items))
    ELSE IF v.k = "dict" THEN DictNode(MakeAll(v.keys), MakeAll(v.vals))
    ELSE IF IsNum(v) THEN NumNode(v, IF v.k = "float" THEN v ELSE IntV(IntOf(v)))
    ELSE IF v.k = "str" THEN StrN(v.s)
    ELSE IF v.k \in {"bool", "none"} THEN NameConstant(v)
    ELSE Raise("TypeError")

\* the exceptions is_wrappable catches
WrappableCaught == {"TypeError"}

WrappableResult(r) ==
    IF ~IsRaise(r) THEN BoolV(TRUE)
    ELSE IF r.exc \in WrappableCaught THEN BoolV(FALSE)
    ELSE r

\* whether the value is or can be made into an AST node, or the exception that escapes
is_wrappable(v) == WrappableResult(make_ast_from_literal(v))

-----------------------------------------------------------------------------
(* The collaborators of the resolver *)

\* resolve_name_or_attribute: the context's value of a name, a constant's value,
\* or the node itself when the name is not bound
resolve_name_or_attribute(n, c) ==
    IF n.t = "Name" THEN (IF n.id \in DOMAIN c THEN c[n.id] ELSE n)
    ELSE IF n.t = "NameConstant" THEN n.value
    ELSE n

\* the value kinds of primitive_types, and the node kinds of primitive_ast_types
\* and iterable_ast_types
primitive_types == {"str", "bool", "none", "int", "float"}
primitive_ast_types == {"Num", "Str", "NameConstant"}
iterable_ast_types == {"List", "Tuple", "Set"}

\* the registry of functions safe to call while folding
pure_functions == {Func("abs"), Func("len")}

\* func(*args, **kwargs) of the functions of the model
Invoke(f, args, kwargs) ==
    IF f.k # "func" \/ Len(args) # 1 \/ Len(kwargs) # 0 THEN Raise("TypeError")
    ELSE LET a == args[1]
         IN  CASE f.name = "abs" ->
                    IF ~IsNum(a) THEN Raise("TypeError")
                    ELSE IF DenOf(a) = 0 THEN a
                    ELSE MkNum(Abs(NumOf(a)), DenOf(a), IsIntLike(a))
               [] f.name = "len" ->
                    IF ~IsValue(a) THEN Raise("TypeError")
                    ELSE IF a.k = "str" THEN IntV(Len(a.s))
                    ELSE IF a.k \in {"list", "tuple", "set"} THEN IntV(Len(a.items))
                    ELSE IF a.k = "dict" THEN IntV(Len(a.keys))
                    ELSE Raise("TypeError")
               \* any other function: called, returns None
               [] OTHER -> NoneV

\* resolve_indexable: the elements of a list or tuple display, the entries of a dict
\* display, the list, tuple or dict a name is bound to, or None
resolve_indexable(n, c) ==
    IF n.t \in {"List", "Tuple"} THEN [k |-> "list", items |-> n.elts, of |-> "elts"]
    ELSE IF n.t = "Dict" THEN [k |-> "dict", keys |-> n.keys, vals |-> n.values, of |-> "values"]
    ELSE IF n.t = "Name" /\ n.id \in DOMAIN c /\ IsValue(c[n.id]) THEN
        (IF c[n.id].k \in {"list", "tuple"}
            THEN [k |-> "list", items |-> c[n.id].items, of |-> "ctxt"]
         ELSE IF c[n.id].k = "dict"
            THEN [k |-> "dict", keys |-> c[n.id].keys, vals |-> c[n.id].vals, of |-> "ctxt"]
         ELSE NoneV)
    ELSE NoneV

-----------------------------------------------------------------------------
(* The resolver.  Every handler returns the outcome of the call: res, the value or
   node returned or the exception raised; node, the handled node as the call left
   it (a BoolOp's operand list is narrowed in place); inv, the functions invoked. *)

Out(res, n, inv) == [res |-> res, node |-> n, inv |-> inv]

\* set(val): the distinct elements in order of first occurrence
RECURSIVE Dedupe(_)
Dedupe(q) ==
    IF q = <<>> THEN <<>>
    ELSE IF \E i \in 1..(Len(q) - 1) : PyEq(q[i], q[Len(q)])
        THEN Dedupe(SubSeq(q, 1, Len(q) - 1))
    ELSE Append(Dedupe(SubSeq(q, 1, Len(q) - 1)), q[Len(q)])

MakeSet(val) ==
    IF \E i \in 1..Len(val) : ~Hashable(val[i]) THEN Raise("TypeError") ELSE SetV(Dedupe(val))

\* dct[k] = v on the entries kept in insertion order
DictSetAt(d, i, key, v) ==
    IF i = 0 THEN DictV(Append(d.keys, key), Append(d.vals, v))
    ELSE DictV(d.keys, [d.vals EXCEPT ![i] = v])

DictSet(d, key, v) == DictSetAt(d, KeyIndex(d.keys, key), key, v)

RECURSIVE _resolve_literal(_, _)
RECURSIVE resolve_literal(_, _, _)
RECURSIVE FoldEach(_, _, _, _, _)

\* the outcomes so far with the outcome r of element i added
FoldStep(acc, i, r, mode) ==
    [vals |-> Append(acc.vals, r.res),
     elts |-> [acc.elts EXCEPT ![i] = r.node],
     inv |-> acc.inv \cup r.inv,
     stop |-> IF IsRaise(r.res) THEN "raise"
              ELSE IF mode = "ast" /\ IsAST(r.res) THEN "ast"
              ELSE IF mode = "hash" /\ ~Hashable(r.res) THEN "hash"
              ELSE "none"]

FoldNext(elts, i, c, mode, acc2) ==
    IF acc2.stop # "none" THEN acc2 ELSE FoldEach(elts, i + 1, c, mode, acc2)

\* [_resolve_literal(e, ctxt) for e in elts] from element i on, stopping at the
\* first exception and, by mode, at the first element left a node ("ast") or
\* folded to an unhashable value ("hash")
FoldEach(elts, i, c, mode, acc) ==
    IF i > Len(elts) THEN acc
    ELSE FoldNext(elts, i, c, mode, FoldStep(acc, i, _resolve_literal(elts[i], c), mode))

FoldAll(elts, c, mode) ==
    FoldEach(elts, 1, c, mode, [vals |-> <<>>, elts |-> elts, inv |-> {}, stop |-> "none"])

Last(q) == q[Len(q)]

\* the lookup result res of a name, refined by the fold r of the node it names
\* when that fold is wrappable (w)
NameChoose(n, res, r, w) ==
    IF IsRaise(w) THEN Out(w, n, r.inv)
    ELSE IF w.b THEN Out(r.res, n, r.inv)
    ELSE Out(res, n, r.inv)

NameRefined(n, res, r) ==
    IF IsRaise(r.res) THEN Out(r.res, n, r.inv) ELSE NameChoose(n, res, r, is_wrappable(r.res))

NameWith(n, c, res) ==
    IF IsAST(res) /\ res.t \notin {"Name", "Attribute", "NameConstant"}
    THEN NameRefined(n, res, _resolve_literal(res, c))
    ELSE Out(res, n, {})

resolve_literal_name(n, c) == NameWith(n, c, resolve_name_or_attribute(n, c))

\* the container of the folded elements f of the display n1
ListWith(kind, n1, f) ==
    IF f.stop = "raise" THEN Out(Last(f.vals), n1, f.inv)
    ELSE IF f.stop = "ast" THEN Out(n1, n1, f.inv)
    ELSE IF kind = "Tuple" THEN Out(TupleV(f.vals), n1, f.inv)
    ELSE IF kind = "List" THEN Out(ListV(f.vals), n1, f.inv)
    ELSE IF kind = "Set" THEN Out(MakeSet(f.vals), n1, f.inv)
    ELSE Out(Raise("TypeError"), n1, f.inv)

ListFolded(n, f) == ListWith(n.t, [n EXCEPT !.elts = f.elts], f)

resolve_literal_list(n, c) == ListFolded(n, FoldAll(n.elts, c, "ast"))

\* whether the folded value of a dict entry replaces the entry's expression
SubstitutesValue(vres) == IsAST(vres) /\ vres.t \in primitive_ast_types \cup iterable_ast_types

RECURSIVE DictLoop(_, _, _, _)

\* entry i of a dict display, its key folded to kr and its value to vr
DictValue(n, i, c, acc, kr, vr, n2) ==
    IF IsRaise(vr.res) THEN Out(vr.res, n2, acc.inv \cup kr.inv \cup vr.inv)
    ELSE IF ~Hashable(kr.res) THEN Out(Raise("TypeError"), n2, acc.inv \cup kr.inv \cup vr.inv)
    ELSE DictLoop(n, i + 1, c,
                  [dct |-> DictSet(acc.dct, kr.res, IF SubstitutesValue(vr.res) THEN vr.res ELSE vr.node),
                   keys |-> n2.keys, values |-> n2.values, inv |-> acc.inv \cup kr.inv \cup vr.inv])

DictValueFolded(n, i, c, acc, kr, vr, n1) ==
    DictValue(n, i, c, acc, kr, vr, [n1 EXCEPT !.values[i] = vr.node])

DictKey(n, i, c, acc, kr, n1) ==
    IF IsRaise(kr.res) THEN Out(kr.res, n1, acc.inv \cup kr.inv)
    ELSE IF IsAST(kr.res) THEN Out(n1, n1, acc.inv \cup kr.inv)
    ELSE DictValueFolded(n, i, c, acc, kr, _resolve_literal(n.values[i], c), n1)

DictKeyFolded(n, i, c, acc, kr) ==
    DictKey(n, i, c, acc, kr, DictN([acc.keys EXCEPT ![i] = kr.node], acc.values))

\* the loop of resolve_literal_dict from entry i on
DictLoop(n, i, c, acc) ==
    IF i > Len(n.keys) \/ i > Len(n.values)
    THEN Out(acc.dct, DictN(acc.keys, acc.values), acc.inv)
    ELSE DictKeyFolded(n, i, c, acc, _resolve_literal(n.keys[i], c))

resolve_literal_dict(n, c) ==
    DictLoop(n, 1, c, [dct |-> DictV(<<>>, <<>>), keys |-> n.keys, values |-> n.values, inv |-> {}])

\* the exceptions resolve_literal_subscript catches around the lookup
SubscriptCaught == {"KeyError", "IndexError"}

\* {_resolve_literal(k, ctxt): v for k, v in indexable.items()}, each value kept as
\* its position among the entries
RECURSIVE NormalizeKeys(_, _)
NormalizeKeys(ks, i) ==
    IF i = 0 THEN DictV(<<>>, <<>>) ELSE DictSet(NormalizeKeys(ks, i - 1), ks[i], IntV(i))

DictLookupAt(d, j) == IF j = 0 THEN Raise("KeyError") ELSE d.vals[j]
DictLookup(d, slice) == DictLookupAt(d, KeyIndex(d.keys, slice))

ListLookupAt(j, len) == IF j < 0 \/ j >= len THEN Raise("IndexError") ELSE IntV(j + 1)

\* indexable[slice]: the position of the item, or the exception raised
Lookup(ix, keys, slice) ==
    IF ix.k = "dict" THEN
        (IF ~Hashable(slice) THEN Raise("TypeError")
         ELSE DictLookup(NormalizeKeys(keys, Len(keys)), slice))
    ELSE IF ~IsIntLike(slice) THEN Raise("TypeError")
    ELSE ListLookupAt(IF IntOf(slice) < 0 THEN IntOf(slice) + Len(ix.items) ELSE IntOf(slice),
                      Len(ix.items))

\* the subscript node with entry pos of its target replaced
WithItem(n, ix, pos, item) ==
    IF ix.of = "elts" THEN [n EXCEPT !.value.elts[pos] = item]
    ELSE IF ix.of = "values" THEN [n EXCEPT !.value.values[pos] = item]
    ELSE n

\* the item found, folded to it
SubscriptItem(n3, inv, it) ==
    IF IsRaise(it.res)
        THEN (IF it.res.exc \in SubscriptCaught THEN Out(n3, n3, inv \cup it.inv)
              ELSE Out(it.res, n3, inv \cup it.inv))
    ELSE IF IsValue(it.res) /\ it.res.k \in primitive_types THEN Out(it.res, n3, inv \cup it.inv)
    ELSE Out(it.node, n3, inv \cup it.inv)

SubscriptItemFolded(n2, ix, pos, inv, it) ==
    SubscriptItem(WithItem(n2, ix, pos, it.node), inv, it)

SubscriptFound(n2, c, ix, inv, found) ==
    IF IsRaise(found)
        THEN (IF found.exc \in SubscriptCaught THEN Out(n2, n2, inv) ELSE Out(found, n2, inv))
    ELSE SubscriptItemFolded(n2, ix, found.i, inv,
            _resolve_literal(IF ix.k = "dict" THEN ix.vals[found.i] ELSE ix.items[found.i], c))

\* the lookup, the keys of a dict target folded to kf
SubscriptKeys(n2, c, ix, sr, kf) ==
    IF kf.stop = "raise" THEN Out(Last(kf.vals), n2, sr.inv \cup kf.inv)
    ELSE IF kf.stop = "hash" THEN Out(Raise("TypeError"), n2, sr.inv \cup kf.inv)
    ELSE SubscriptFound(n2, c, ix, sr.inv \cup kf.inv, Lookup(ix, kf.vals, sr.res))

SubscriptKeysFolded(n1, c, ix, sr, kf) ==
    SubscriptKeys(IF ix.of = "values" THEN [n1 EXCEPT !.value.keys = kf.elts] ELSE n1, c, ix, sr, kf)

SubscriptSlice(n1, c, ix, sr) ==
    IF IsRaise(sr.res) THEN Out(sr.res, n1, sr.inv)
    ELSE IF IsAST(sr.res) THEN Out(n1, n1, sr.inv)
    ELSE SubscriptKeysFolded(n1, c, ix, sr,
            IF ix.k = "dict" THEN FoldAll(ix.keys, c, "hash")
            ELSE [vals |-> <<>>, elts |-> <<>>, inv |-> {}, stop |-> "none"])

SubscriptSliceFolded(n, c, ix, sr) == SubscriptSlice([n EXCEPT !.slice = sr.node], c, ix, sr)

SubscriptWith(n, c, ix) ==
    IF ix = NoneV THEN Out(n, n, {})
    ELSE SubscriptSliceFolded(n, c, ix, _resolve_literal(n.slice, c))

resolve_literal_subscript(n, c) == SubscriptWith(n, c, resolve_indexable(n.value, c))

UnopCollapsed(n1, r, v) == IF IsRaise(v) THEN Out(n1, n1, r.inv) ELSE Out(v, n1, r.inv)

UnopWith(o, n1, r) ==
    IF IsRaise(r.res) THEN Out(r.res, n1, r.inv)
    ELSE IF IsAST(r.res) THEN Out(n1, n1, r.inv)
    ELSE UnopCollapsed(n1, r, Collapse1(o, r.res))

UnopFolded(n, r) == UnopWith(n.op, [n EXCEPT !.operand = r.node], r)

resolve_literal_unop(n, c) == UnopFolded(n, _resolve_literal(n.operand, c))

\* the shortcut of a binary operator with exactly one literal operand, tried for
\* (operand, other) in the order (left, right), (right, left): the value returned,
\* or NoInput when no shortcut applies
ShortcutWithoutAddZero(o, operand, other) ==
    IF IsAST(operand) THEN NoInput
    ELSE IF o = "Mult" /\ PyEq(operand, IntV(0)) THEN IntV(0)
    ELSE IF o = "Mult" /\ PyEq(operand, IntV(1)) THEN other
    ELSE IF o = "Mult" /\ PyEq(operand, IntV(-1)) THEN UnaryOp("USub", other)
    ELSE NoInput

SymmetricShortcut(o, operand, other) ==
    IF IsAST(operand) THEN NoInput
    ELSE IF o = "Add" /\ PyEq(operand, IntV(0)) THEN other
    ELSE IF o = "Mult" /\ PyEq(operand, IntV(0)) THEN IntV(0)
    ELSE IF o = "Mult" /\ PyEq(operand, IntV(1)) THEN other
    ELSE IF o = "Mult" /\ PyEq(operand, IntV(-1)) THEN UnaryOp("USub", other)
    ELSE NoInput

AsymmetricShortcut(o, left, right) ==
    IF o \in {"Div", "FloorDiv", "Pow", "Mod"} /\ PyEq(left, IntV(0)) THEN IntV(0)
    ELSE IF o \in {"Div", "Pow"} /\ PyEq(right, IntV(1)) THEN left
    ELSE IF o = "Sub" /\ PyEq(left, IntV(0)) THEN UnaryOp("USub", right)
    ELSE IF o = "Sub" /\ PyEq(right, IntV(0)) THEN left
    ELSE NoInput

FirstShortcut(s1, s2, s3) == IF s1 # NoInput THEN s1 ELSE IF s2 # NoInput THEN s2 ELSE s3

Shortcut(o, left, right) ==
    FirstShortcut(SymmetricShortcut(o, left, right), SymmetricShortcut(o, right, left),
                  AsymmetricShortcut(o, left, right))

\* the operator node rebuilt from the best resolution of each operand, as AST nodes
BinRebuilt(o, n4, inv, bl, br) ==
    IF IsRaise(br.res) THEN Out(br.res, n4, inv \cup bl.inv \cup br.inv)
    ELSE Out(BinOp(bl.res, o, br.res), n4, inv \cup bl.inv \cup br.inv)

BinRebuildRight(n3, inv, bl, br) == BinRebuilt(n3.op, [n3 EXCEPT !.right = br.node], inv, bl, br)

BinRebuildLeft(n3, c, inv, bl) ==
    IF IsRaise(bl.res) THEN Out(bl.res, n3, inv \cup bl.inv)
    ELSE BinRebuildRight(n3, inv, bl, resolve_literal(n3.right, c, FALSE))

BinRebuild(n2, c, inv, bl) == BinRebuildLeft([n2 EXCEPT !.left = bl.node], c, inv, bl)

BinShortcut(n2, c, inv, sc) ==
    IF sc # NoInput THEN Out(sc, n2, inv)
    ELSE BinRebuild(n2, c, inv, resolve_literal(n2.left, c, FALSE))

BinCollapsed(n2, inv, v) == IF IsRaise(v) THEN Out(n2, n2, inv) ELSE Out(v, n2, inv)

BinOperands(n2, c, l, r, inv) ==
    IF IsRaise(r.res) THEN Out(r.res, n2, inv)
    ELSE IF ~IsAST(l.res) /\ ~IsAST(r.res) THEN BinCollapsed(n2, inv, Collapse2(n2.op, l.res, r.res))
    ELSE IF ~IsAST(l.res) \/ ~IsAST(r.res) THEN BinShortcut(n2, c, inv, Shortcut(n2.op, l.res, r.res))
    ELSE BinShortcut(n2, c, inv, NoInput)

BinRightFolded(n1, c, l, r) == BinOperands([n1 EXCEPT !.right = r.node], c, l, r, l.inv \cup r.inv)

BinLeft(n1, c, l) ==
    IF IsRaise(l.res) THEN Out(l.res, n1, l.inv)
    ELSE BinRightFolded(n1, c, l, _resolve_literal(n1.right, c))

BinLeftFolded(n, c, l) == BinLeft([n EXCEPT !.left = l.node], c, l)

resolve_literal_binop(n, c) == BinLeftFolded(n, c, _resolve_literal(n.left, c))

_is_literal_true(x) == IsIntLike(x) /\ Truthy(x)
_is_literal_false(x) == IsIntLike(x) /\ ~Truthy(x)

\* val.id == already_accounted.id, false when either has no id
SameId(val, already) ==
    IsAST(val) /\ val.t = "Name" /\ IsAST(already) /\ already.t = "Name" /\ val.id = already.id

RECURSIVE BoolLoop(_, _, _, _)

BoolLoopStep(values, i, o, new_values, val) ==
    IF o = "Or" /\ _is_literal_true(val) THEN [short |-> TRUE, value |-> BoolV(TRUE)]
    ELSE IF o = "And" /\ _is_literal_false(val) THEN [short |-> TRUE, value |-> BoolV(FALSE)]
    ELSE BoolLoop(values, i + 1, o,
                  IF \/ o = "Or" /\ _is_literal_false(val)
                     \/ o = "And" /\ _is_literal_true(val)
                     \/ \E j \in 1..Len(new_values) : SameId(val, new_values[j])
                  THEN new_values
                  ELSE Append(new_values, val))

\* the loop of resolve_literal_boolop over the folded operands from operand i on:
\* the literal the expression short-circuits to, or the surviving operands
BoolLoop(values, i, o, new_values) ==
    IF i > Len(values) THEN [short |-> FALSE, new_values |-> new_values]
    ELSE BoolLoopStep(values, i, o, new_values, values[i])

BoolNarrowed(o, n1, inv, b) ==
    IF b.short THEN Out(b.value, n1, inv)
    ELSE IF Len(b.new_values) = 0 THEN Out(BoolV(o = "And"), n1, inv)
    ELSE IF Len(b.new_values) = 1 THEN Out(b.new_values[1], n1, inv)
    ELSE Out([n1 EXCEPT !.values = b.new_values], [n1 EXCEPT !.values = b.new_values], inv)

BoolWith(n1, f) ==
    IF f.stop = "raise" THEN Out(Last(f.vals), n1, f.inv)
    ELSE BoolNarrowed(n1.op, n1, f.inv, BoolLoop(f.vals, 1, n1.op, <<>>))

BoolFolded(n, f) == BoolWith([n EXCEPT !.values = f.elts], f)

resolve_literal_boolop(n, c) ==
    IF n.op \notin {"And", "Or"} THEN Out(n, n, {})
    ELSE BoolFolded(n, FoldAll(n.values, c, "all"))

RECURSIVE CompareChain(_, _, _)

CompareStep(ops, operands, i, r) ==
    IF IsRaise(r) THEN r
    ELSE IF ~Truthy(r) THEN BoolV(FALSE)
    ELSE CompareChain(ops, operands, i + 1)

\* all(_collapse_map[op](operands[i - 1], operands[i]) ...) from comparison i on
CompareChain(ops, operands, i) ==
    IF i > Len(ops) \/ i + 1 > Len(operands) THEN BoolV(TRUE)
    ELSE CompareStep(ops, operands, i, CollapseCmp(ops[i], operands[i], operands[i + 1]))

CompareWith(n1, f) ==
    IF f.stop = "raise" THEN Out(Last(f.vals), n1, f.inv)
    ELSE IF \A i \in 1..Len(f.vals) : ~IsAST(f.vals[i])
        THEN Out(CompareChain(n1.ops, f.vals, 1), n1, f.inv)
    ELSE Out(n1, n1, f.inv)

CompareFolded(n, f) == CompareWith([n EXCEPT !.left = f.elts[1], !.comparators = Tail(f.elts)], f)

resolve_literal_compare(n, c) == CompareFolded(n, FoldAll(<<n.left>> \o n.comparators, c, "all"))

\* a registry test that admits every function
AnyFunctionIsPure(func) == IsValue(func) /\ func.k = "func"

\* func in pure_functions
IsPure(func) == func \in pure_functions

KeywordValues(kws) == [i \in 1..Len(kws) |-> kws[i].value]
WithKeywordValues(kws, vs) == [i \in 1..Len(kws) |-> Keyword(kws[i].arg, vs[i])]

\* func(*args, **kwargs) returned v
CallInvoked(n3, inv, v) == IF IsRaise(v) THEN Out(n3, n3, inv) ELSE Out(v, n3, inv)

\* _resolve_keywords: every keyword argument resolved to a value
CallKeywords(n3, func, inv, af, kf) ==
    IF kf.stop # "none" THEN Out(n3, n3, inv \cup kf.inv)
    ELSE CallInvoked(n3, inv \cup kf.inv \cup {func.name},
                     Invoke(func, af.vals, WithKeywordValues(n3.keywords, kf.vals)))

CallKeywordsFolded(n2, func, inv, af, kf) ==
    CallKeywords([n2 EXCEPT !.keywords = WithKeywordValues(n2.keywords, kf.elts)], func, inv, af, kf)

\* _resolve_args: every positional argument resolved to a value
CallArgs(n2, c, func, inv, af) ==
    IF af.stop # "none" THEN Out(n2, n2, inv \cup af.inv)
    ELSE CallKeywordsFolded(n2, func, inv \cup af.inv, af,
                            FoldAll(KeywordValues(n2.keywords), c, "ast"))

CallArgsFolded(n1, c, func, inv, af) == CallArgs([n1 EXCEPT !.args = af.elts], c, func, inv, af)

CallFunc(n1, c, fr) ==
    IF IsRaise(fr.res) THEN Out(fr.res, n1, fr.inv)
    ELSE IF IsAST(fr.res) THEN Out(n1, n1, fr.inv)
    ELSE IF ~Hashable(fr.res) THEN Out(Raise("TypeError"), n1, fr.inv)
    ELSE IF ~IsPure(fr.res) THEN Out(n1, n1, fr.inv)
    ELSE CallArgsFolded(n1, c, fr.res, fr.inv, FoldAll(n1.args, c, "ast"))

CallFuncFolded(n, c, fr) == CallFunc([n EXCEPT !.func = fr.node], c, fr)

resolve_literal_call(n, c) == CallFuncFolded(n, c, _resolve_literal(n.func, c))

IndexFolded(n, r) == Out(r.res, [n EXCEPT !.value = r.node], r.inv)

\* Collapses literal expressions: the literal when there is one, else an AST node
_resolve_literal(n, c) ==
    IF ~IsAST(n) THEN Out(n, n, {})
    ELSE CASE n.t \in {"Name", "NameConstant"} -> resolve_literal_name(n, c)
           [] n.t = "Num" -> Out(n.n, n, {})
           [] n.t = "Str" -> Out(StrV(n.s), n, {})
           [] n.t \in {"List", "Tuple", "Set"} -> resolve_literal_list(n, c)
           [] n.t = "Dict" -> resolve_literal_dict(n, c)
           [] n.t = "Index" -> IndexFolded(n, _resolve_literal(n.value, c))
           [] n.t = "Slice" -> Out(Raise("NotImplementedError"), n, {})
           [] n.t = "Subscript" -> resolve_literal_subscript(n, c)
           [] n.t = "UnaryOp" -> resolve_literal_unop(n, c)
           [] n.t = "BinOp" -> resolve_literal_binop(n, c)
           [] n.t = "BoolOp" -> resolve_literal_boolop(n, c)
           [] n.t = "Compare" -> resolve_literal_compare(n, c)
           [] n.t = "Call" -> resolve_literal_call(n, c)
           [] OTHER -> Out(n, n, {})

\* the exceptions resolve_literal catches around the wrapping of the result
ResolveCaught == {"TypeError"}

\* the result r of the fold wrapped as the node m
ResolveWrapped(r, m) ==
    IF ~IsRaise(m) THEN Out(m, r.node, r.inv)
    ELSE IF m.exc \in ResolveCaught THEN Out(r.node, r.node, r.inv)
    ELSE Out(m, r.node, r.inv)

ResolveWith(r, give_raw_result) ==
    IF give_raw_result \/ IsRaise(r.res) THEN r
    ELSE ResolveWrapped(r, make_ast_from_literal(r.res))

\* Collapse literal expressions in the node: the raw result, or its AST form
resolve_literal(n, c, give_raw_result) == ResolveWith(_resolve_literal(n, c), give_raw_result)

-----------------------------------------------------------------------------
(* The requests: the trees, values and contexts a caller hands in *)

\* the integer literals are -1..MaxInt
MaxInt == 2
\* a container display, a dict display and an argument list hold up to MaxElts entries
MaxElts == 2
\* a boolean operator holds 2..MaxOperands operands
MaxOperands == 3

SeqsUpTo(S, lo, hi) == UNION {[1..m -> S] : m \in lo..hi}

IntLits == {Num(IntV(i)) : i \in -1..MaxInt}

\* u and v are bound in no context
Leaves ==
    IntLits \cup {StrN("a"), NameConstant(BoolV(TRUE)), NameConstant(BoolV(FALSE)),
                  NameConstant(NoneV), Name("u"), Name("v"), Name("x")}

\* u or False or v: folding narrows it in place to u or v
NarrowedOr == BoolOp("Or", <<Name("u"), NameConstant(BoolV(FALSE)), Name("v")>>)
List123 == ListN(<<Num(IntV(1)), Num(IntV(2)), Num(IntV(3))>>)
\* [1, 2, 3]["a"] and [1, 2, 3][:]
BadIndex == Subscript(List123, Index(StrN("a")))
SliceIndex == Subscript(List123, Slice)
Minus3 == UnaryOp("USub", Num(IntV(3)))

\* operand expressions of more than one node
Operands ==
    {NarrowedOr, BinOp(Name("u"), "Add", Num(IntV(2))), BinOp(Num(IntV(1)), "Div", Num(IntV(2))),
     ListN(<<Name("u")>>), ListN(<<Num(IntV(1))>>), BadIndex, SliceIndex,
     Call(Name("f"), <<Minus3>>, <<>>), Name("y"), UnaryOp("USub", Name("u")),
     Compare(Name("u"), <<"Lt">>, <<Num(IntV(1))>>), DictN(<<Num(IntV(1))>>, <<Name("u")>>)}

UnaryTrees == {UnaryOp(o, x) : o \in UnaryOps, x \in Leaves}

BinTrees ==
    {BinOp(a, o, b) : a \in Leaves, o \in BinOps, b \in Leaves}
    \cup {BinOp(x, o, l) : x \in Operands, o \in BinOps, l \in IntLits}
    \cup {BinOp(l, o, x) : x \in Operands, o \in BinOps, l \in IntLits}

BoolLeaves ==
    {NameConstant(BoolV(TRUE)), NameConstant(BoolV(FALSE)), Num(IntV(2)), StrN("a"),
     Name("u"), Name("v"), Name("x")}

BoolTrees ==
    {BoolOp(o, q) : o \in {"And", "Or"}, q \in SeqsUpTo(BoolLeaves, 2, MaxOperands)}
    \cup {BoolOp(o, <<x, l>>) : o \in {"And", "Or"}, x \in Operands,
                                l \in {NameConstant(BoolV(TRUE)), NameConstant(BoolV(FALSE)), Name("v")}}
    \cup {BoolOp(o, <<l, x>>) : o \in {"And", "Or"}, x \in Operands,
                                l \in {NameConstant(BoolV(TRUE)), NameConstant(BoolV(FALSE)), Name("v")}}

Elements ==
    {Num(IntV(1)), Num(IntV(2)), StrN("a"), NameConstant(BoolV(TRUE)), Name("u"), Name("x"),
     NarrowedOr, BadIndex, SliceIndex, ListN(<<Num(IntV(1))>>)}

ContainerTrees ==
    {[t |-> k, elts |-> q] : k \in {"List", "Tuple", "Set"}, q \in SeqsUpTo(Elements, 0, MaxElts)}

DictKeys == {Num(IntV(1)), NameConstant(BoolV(TRUE)), Name("u"), ListN(<<Num(IntV(1))>>)}
DictValues ==
    {Num(IntV(2)), Name("u"), NarrowedOr, SliceIndex,
     Subscript(ListN(<<ListN(<<Name("u")>>)>>), Index(Num(IntV(0))))}

DictTrees ==
    UNION {{DictN(ks, vs) : ks \in [1..m -> DictKeys], vs \in [1..m -> DictValues]} : m \in 0..MaxElts}

SubscriptTargets ==
    {List123, ListN(<<Name("u"), NarrowedOr>>),
     DictN(<<Num(IntV(1)), StrN("a")>>, <<Num(IntV(2)), Name("u")>>),
     DictN(<<ListN(<<Num(IntV(1))>>)>>, <<Num(IntV(2))>>),
     Name("lst"), Name("d"), Name("u"), Num(IntV(1))}

SubscriptIndexes ==
    {Index(l) : l \in IntLits}
    \cup {Index(Num(IntV(5))), Index(StrN("a")), Index(Name("u")), Index(NameConstant(BoolV(TRUE))),
          Index(ListN(<<Num(IntV(1))>>)), Slice}

SubscriptTrees == {Subscript(x, i) : x \in SubscriptTargets, i \in SubscriptIndexes}

CompareLeaves == {Num(IntV(1)), Num(IntV(2)), StrN("a"), Name("u"), NameConstant(NoneV)}

CompareTrees ==
    {Compare(a, <<o>>, <<b>>) : a \in CompareLeaves, o \in CmpOps, b \in CompareLeaves}
    \cup {Compare(a, <<"Lt", o>>, <<b, c>>) :
            a \in CompareLeaves, o \in {"Lt", "Eq"}, b \in CompareLeaves, c \in CompareLeaves}

Callees == {Name("f"), Name("g"), Name("u"), Name("x"), Name("lst")}
Arguments == {Num(IntV(1)), Minus3, StrN("a"), Name("u"), SliceIndex}

CallTrees ==
    {Call(fn, args, kws) : fn \in Callees, args \in SeqsUpTo(Arguments, 0, MaxElts),
                           kws \in {<<>>, <<Keyword("k", Num(IntV(1)))>>}}
    \cup {Call(Name("f"), <<Call(fn, <<Minus3>>, <<>>)>>, <<>>) : fn \in Callees}

Trees ==
    Leaves \cup Operands \cup UnaryTrees \cup BinTrees \cup BoolTrees \cup ContainerTrees
    \cup DictTrees \cup SubscriptTrees \cup CompareTrees \cup CallTrees

\* The contexts: the names a context binds, each to a value or to a node.  Nodes
\* held by a context contain no boolean operator.
CtxA ==
    [x |-> IntV(0), y |-> BinOp(Name("u"), "Add", Num(IntV(2))), f |-> Func("abs"),
     g |-> Func("open"), lst |-> ListV(<<IntV(1), IntV(2), IntV(3)>>),
     d |-> DictV(<<IntV(1), StrV("a")>>, <<IntV(2), NoneV>>)]
CtxB ==
    [x |-> StrV("a"), y |-> Num(IntV(1)), f |-> Func("len"), g |-> IntV(3),
     lst |-> TupleV(<<StrV("a")>>)]
Contexts == {CtxA, CtxB}

\* the values handed to the bridge
PrimValues ==
    {IntV(i) : i \in -1..MaxInt}
    \cup {BoolV(TRUE), BoolV(FALSE), StrV("a"), StrV(""), NoneV, FloatV(1, 2), FloatV(2, 1),
          NaN, Object, Func("abs")}

ElementValues == {IntV(1), IntV(2), BoolV(TRUE), StrV("a"), NoneV, NaN, Object, FloatV(1, 2)}

Distinct(q) == \A i \in 1..Len(q) : \A j \in 1..Len(q) : i # j => ~PyEq(q[i], q[j])

FlatValues ==
    {[k |-> kd, items |-> q] : kd \in {"list", "tuple"}, q \in SeqsUpTo(ElementValues, 0, MaxElts)}
    \cup {SetV(q) : q \in {p \in SeqsUpTo(ElementValues, 0, MaxElts) : Distinct(p)}}
    \cup UNION {{DictV(ks, vs) : ks \in {p \in [1..m -> {IntV(1), StrV("a"), BoolV(FALSE), NoneV}] : Distinct(p)},
                                 vs \in [1..m -> ElementValues]} : m \in 0..MaxElts}

InnerValues ==
    {ListV(<<IntV(1)>>), TupleV(<<IntV(1), StrV("a")>>), SetV(<<IntV(1)>>),
     DictV(<<IntV(1)>>, <<IntV(2)>>), ListV(<<Object>>), TupleV(<<NaN>>), TupleV(<<BoolV(TRUE)>>)}

NestedValues ==
    {ListV(<<x, y>>) : x \in InnerValues, y \in {IntV(1), NoneV}}
    \cup {TupleV(<<x>>) : x \in InnerValues}
    \cup {DictV(<<StrV("a")>>, <<x>>) : x \in InnerValues}
    \cup {DictV(<<x>>, <<IntV(1)>>) : x \in {TupleV(<<IntV(1), StrV("a")>>), TupleV(<<BoolV(TRUE)>>)}}

NodeValues ==
    {Num(IntV(1)), Name("u"), NarrowedOr, Collapsable(Num(IntV(1))), Collapsable(Name("u")),
     ListV(<<Name("u"), IntV(1)>>)}

Literals == PrimValues \cup FlatValues \cup NestedValues \cup NodeValues

-----------------------------------------------------------------------------
(* The state machine: a request, then the calls of the public entry points *)

Init ==
    /\ \/ lit \in Literals /\ input = NoInput
       \/ lit = NoInput /\ input \in Trees
    /\ node = input
    /\ ctxt \in Contexts
    /\ op = "none"
    /\ result = NoInput
    /\ invoked = {}
    /\ pc = "input"

MakeAstResult(r) ==
    /\ result' = r
    /\ input' = IF IsRaise(r) THEN input ELSE r
    /\ node' = IF IsRaise(r) THEN node ELSE r
    /\ pc' = IF IsRaise(r) THEN "done" ELSE "wrapped"

\* node = make_ast_from_literal(lit)
MakeAst ==
    /\ pc = "input"
    /\ lit # NoInput
    /\ MakeAstResult(make_ast_from_literal(lit))
    /\ op' = "make_ast_from_literal"
    /\ UNCHANGED <<lit, ctxt, invoked>>

\* is_wrappable(lit)
IsWrappable ==
    /\ pc = "input"
    /\ lit # NoInput
    /\ result' = is_wrappable(lit)
    /\ op' = "is_wrappable"
    /\ pc' = "done"
    /\ UNCHANGED <<lit, input, node, ctxt, invoked>>

ResolveResult(r) ==
    /\ result' = r.res
    /\ node' = r.node
    /\ invoked' = r.inv

\* resolve_literal(node, ctxt, give_raw_result)
ResolveLiteral(give_raw_result) ==
    /\ pc \in {"input", "wrapped"}
    /\ node # NoInput
    /\ ResolveResult(resolve_literal(node, ctxt, give_raw_result))
    /\ op' = IF give_raw_result THEN "resolve_literal_raw" ELSE "resolve_literal"
    /\ pc' = "done"
    /\ UNCHANGED <<lit, input, ctxt>>

Next ==
    \/ MakeAst
    \/ IsWrappable
    \/ \E give_raw_result \in BOOLEAN : ResolveLiteral(give_raw_result)

Spec == Init /\ [][Next]_vars

-----------------------------------------------------------------------------
(* What Python computes for an expression: the reference the folds are held to *)

\* the values given to the names no context binds
Assignments == [{"u", "v"} -> {IntV(i) : i \in -1..MaxInt}]

RECURSIVE Eval(_, _, _)
RECURSIVE EvalBool(_, _, _, _, _)

EvalUnary(o, v) == IF IsRaise(v) THEN v ELSE Collapse1(o, v)

EvalBinary(o, l, r) ==
    IF IsRaise(l) THEN l ELSE IF IsRaise(r) THEN r ELSE Collapse2(o, l, r)

\* a or b or ..., a and b and ...: the first operand that decides, else the last
EvalBoolStep(o, vals, i, c, a, v) ==
    IF IsRaise(v) \/ i = Len(vals) THEN v
    ELSE IF (o = "Or") = Truthy(v) THEN v
    ELSE EvalBool(o, vals, i + 1, c, a)

EvalBool(o, vals, i, c, a) == EvalBoolStep(o, vals, i, c, a, Eval(vals[i], c, a))

\* the value of expression e in context c with the unbound names assigned by a
Eval(e, c, a) ==
    IF ~IsAST(e) THEN e
    ELSE CASE e.t = "Num" -> e.n
           [] e.t = "Str" -> StrV(e.s)
           [] e.t = "NameConstant" -> e.value
           [] e.t = "Name" ->
                IF e.id \in DOMAIN a THEN a[e.id]
                ELSE IF e.id \in DOMAIN c THEN Eval(c[e.id], c, a)
                ELSE Raise("NameError")
           [] e.t = "UnaryOp" -> EvalUnary(e.op, Eval(e.operand, c, a))
           [] e.t = "BinOp" -> EvalBinary(e.op, Eval(e.left, c, a), Eval(e.right, c, a))
           [] e.t = "BoolOp" -> EvalBool(e.op, e.values, 1, c, a)
           [] OTHER -> Raise("NotEvaluated")

RECURSIVE Arithmetic(_)
\* an expression of names, constants and unary, binary and boolean operators
Arithmetic(e) ==
    IsAST(e) /\
    CASE e.t \in {"Num", "Str", "NameConstant", "Name"} -> TRUE
      [] e.t = "UnaryOp" -> Arithmetic(e.operand)
      [] e.t = "BinOp" -> Arithmetic(e.left) /\ Arithmetic(e.right)
      [] e.t = "BoolOp" -> \A i \in 1..Len(e.values) : Arithmetic(e.values[i])
      [] OTHER -> FALSE

\* equal outcomes: the same node, the same exception, or values equal as a == b
Equal(a, b) ==
    IF IsValue(a) /\ IsValue(b) THEN a = b \/ PyEq(a, b) ELSE a = b

RECURSIVE SameValue(_, _)
\* values of the same kind and the same content
SameValue(a, b) ==
    /\ IsValue(a) /\ IsValue(b) /\ a.k = b.k
    /\ CASE a.k \in {"list", "tuple"} ->
              /\ Len(a.items) = Len(b.items)
              /\ \A i \in 1..Len(a.items) : SameValue(a.items[i], b.items[i])
         [] a.k = "set" ->
              /\ \A i \in 1..Len(a.items) : \E j \in 1..Len(b.items) : SameValue(a.items[i], b.items[j])
              /\ \A j \in 1..Len(b.items) : \E i \in 1..Len(a.items) : SameValue(a.items[i], b.items[j])
         [] a.k = "dict" ->
              /\ Len(a.keys) = Len(b.keys)
              /\ \A i \in 1..Len(a.keys) :
                    SameValue(a.keys[i], b.keys[i]) /\ SameValue(a.vals[i], b.vals[i])
         [] OTHER -> a = b

RECURSIVE Supported(_)
\* a literal of a supported kind: int, float, str, bool, none, and the lists,
\* tuples, sets and mappings built from them
Supported(v) ==
    /\ IsValue(v)
    /\ CASE v.k \in {"int", "bool", "str", "none"} -> TRUE
         [] v.k = "float" -> v.den # 0
         [] v.k \in {"list", "tuple", "set"} -> \A i \in 1..Len(v.items) : Supported(v.items[i])
         [] v.k = "dict" ->
              \A i \in 1..Len(v.keys) : Supported(v.keys[i]) /\ Supported(v.vals[i])
         [] OTHER -> FALSE

RECURSIVE WellFormed(_)
\* a node whose every child position holds a well-formed node
WellFormed(e) ==
    IsAST(e) /\
    CASE e.t \in {"List", "Tuple", "Set"} -> \A i \in 1..Len(e.elts) : WellFormed(e.elts[i])
      [] e.t = "Dict" ->
            /\ \A i \in 1..Len(e.keys) : WellFormed(e.keys[i])
            /\ \A i \in 1..Len(e.values) : WellFormed(e.values[i])
      [] e.t = "Index" -> WellFormed(e.value)
      [] e.t = "Subscript" -> WellFormed(e.value) /\ WellFormed(e.slice)
      [] e.t = "UnaryOp" -> WellFormed(e.operand)
      [] e.t = "BinOp" -> WellFormed(e.left) /\ WellFormed(e.right)
      [] e.t = "BoolOp" -> \A i \in 1..Len(e.values) : WellFormed(e.values[i])
      [] e.t = "Compare" ->
            WellFormed(e.left) /\ \A i \in 1..Len(e.comparators) : WellFormed(e.comparators[i])
      [] e.t = "Call" ->
            /\ WellFormed(e.func)
            /\ \A i \in 1..Len(e.args) : WellFormed(e.args[i])
            /\ \A i \in 1..Len(e.keywords) : WellFormed(e.keywords[i].value)
      [] OTHER -> TRUE

\* a fold of the tree input has returned, with the raw result
FoldedRaw == pc = "done" /\ op = "resolve_literal_raw" /\ IsAST(input)
\* the raw fold of a subexpression of the input
Fold(e) == _resolve_literal(e, ctxt).res
Zero == Num(IntV(0))
One == Num(IntV(1))

-----------------------------------------------------------------------------
(* The claims *)

\* C1: the result of a fold means what the input means: for every expression of
\* names, constants and operators that folds without raising, and every assignment
\* of values to the unresolved names under which the input evaluates, evaluating
\* the result gives the value of the input.
C1_FoldPreservesMeaning ==
    (/\ pc = "done" /\ op \in {"resolve_literal", "resolve_literal_raw"}
     /\ Arithmetic(input) /\ ~IsRaise(result)) =>
        \A a \in Assignments :
            ~IsRaise(Eval(input, ctxt, a)) => Equal(Eval(result, ctxt, a), Eval(input, ctxt, a))

\* C2: a function is invoked only if the registry holds it.  A call whose callee
\* resolves to a function outside the registry returns the original call node,
\* untouched and with nothing invoked; a call to a registered function whose
\* arguments all fold to literals returns what the function returns; a call whose
\* argument resolution or invocation raises returns the original call node.
C2_OnlyPureFunctionsInvoked ==
    /\ \A name \in invoked : Func(name) \in pure_functions
    /\ (FoldedRaw /\ input.t = "Call" /\ IsValue(Fold(input.func)) /\ Fold(input.func).k = "func") =>
          LET func == Fold(input.func)
              args == FoldAll(input.args, ctxt, "ast")
              kwargs == FoldAll(KeywordValues(input.keywords), ctxt, "ast")
              returned == Invoke(func, args.vals, WithKeywordValues(input.keywords, kwargs.vals))
          IN  IF func \notin pure_functions
                  THEN result = input /\ node = input /\ invoked = {}
              ELSE IF args.stop # "none" \/ kwargs.stop # "none"
                  THEN result = node
              ELSE IF IsRaise(returned) THEN result = node
              ELSE result = returned /\ func.name \in invoked

\* abs(-3) with abs registered folds to 3
C2_AbsFolded ==
    /\ FoldedRaw /\ input = Call(Name("f"), <<Minus3>>, <<>>) /\ ctxt = CtxA
    /\ result = IntV(3) /\ invoked = {"abs"}

\* C3: round trip: for every literal v of a supported kind, make_ast_from_literal(v)
\* succeeds and the raw fold of the node it returns is a value of the kind and
\* content of v.
C3_RoundTrip ==
    (lit # NoInput /\ Supported(lit)) =>
        /\ (op = "make_ast_from_literal" => ~IsRaise(result))
        /\ (pc = "done" /\ op = "resolve_literal_raw" => SameValue(result, lit))

\* C4: is_wrappable returns a boolean and never raises, true exactly when
\* make_ast_from_literal succeeds; for a value outside the supported kinds, alone
\* or nested in a container, it is false.
C4_IsWrappableTotal ==
    (pc = "done" /\ op = "is_wrappable") =>
        /\ result \in {BoolV(TRUE), BoolV(FALSE)}
        /\ result = BoolV(TRUE) <=> ~IsRaise(make_ast_from_literal(lit))
        /\ (IsValue(lit) /\ lit.k # "collapsable" /\ ~Supported(lit)) => result = BoolV(FALSE)

\* C5: container folding is all-or-nothing: the fold of a List, Tuple or Set node
\* is the container of its kind holding the folded elements in order when every
\* element folds to a value, and else the original node, no element replaced by
\* its value.
C5_ContainerAllOrNothing ==
    (FoldedRaw /\ input.t \in {"List", "Tuple", "Set"}) =>
        LET f == FoldAll(input.elts, ctxt, "all")
        IN  IF \A i \in 1..Len(f.vals) : IsValue(f.vals[i])
            THEN /\ IsValue(result)
                 /\ result.k = (CASE input.t = "List" -> "list" [] input.t = "Tuple" -> "tuple"
                                  [] OTHER -> "set")
                 /\ result.items = (IF input.t = "Set" THEN Dedupe(f.vals) ELSE f.vals)
            ELSE result = node /\ IsAST(result) /\ result.t = input.t

\* the mapping literal of the folded keys ks and the values vs, from entry i on
RECURSIVE MappingOf(_, _, _, _)
MappingOf(ks, vs, i, d) ==
    IF i > Len(ks) THEN d ELSE MappingOf(ks, vs, i + 1, DictSet(d, ks[i], vs[i]))

\* C6: mapping folding requires resolved keys only: the fold of a Dict node is the
\* original node when a key stays a residual node, and else the mapping literal
\* with one entry per folded key, each value the folded form when that is a
\* primitive-literal or container node and else the value expression.
C6_MappingKeysRequired ==
    (FoldedRaw /\ input.t = "Dict") =>
        LET kf == FoldAll(input.keys, ctxt, "all")
            vf == FoldAll(input.values, ctxt, "all")
        IN  IF \E i \in 1..Len(kf.vals) : IsAST(kf.vals[i]) THEN result = node
            ELSE result = MappingOf(kf.vals,
                                    [i \in 1..Len(vf.vals) |->
                                        IF SubstitutesValue(vf.vals[i]) THEN vf.vals[i]
                                        ELSE vf.elts[i]],
                                    1, DictV(<<>>, <<>>))

\* an operand whose fold is a number or a residual node
Numeric(e) == IsAST(Fold(e)) \/ (IsNum(Fold(e)) /\ DenOf(Fold(e)) # 0)

\* the identities of the binary operators for the operands in Ok
Identities(Ok(_)) ==
    (FoldedRaw /\ input.t = "BinOp") =>
        /\ (input.op = "Add" /\ input.right = Zero /\ Ok(input.left)) => Equal(result, Fold(input.left))
        /\ (input.op = "Add" /\ input.left = Zero /\ Ok(input.right)) => Equal(result, Fold(input.right))
        /\ (input.op = "Mult" /\ input.right = Zero /\ Ok(input.left)) => Equal(result, IntV(0))
        /\ (input.op = "Mult" /\ input.right = One /\ Ok(input.left)) => Equal(result, Fold(input.left))
        /\ (input.op = "Sub" /\ input.right = Zero /\ Ok(input.left)) => Equal(result, Fold(input.left))
        /\ (input.op = "Sub" /\ input.left = Zero /\ Ok(input.right)) =>
              IF IsAST(Fold(input.right)) THEN result = UnaryOp("USub", Fold(input.right))
              ELSE Equal(result, Collapse1("USub", Fold(input.right)))

\* the left-specific shortcuts fire only on a left operand equal to 0, the
\* right-specific ones only on a right operand equal to 1
ShortcutsOnlyOn ==
    (FoldedRaw /\ input.t = "BinOp") =>
        /\ (/\ input.op \in {"Div", "FloorDiv", "Pow", "Mod"}
            /\ IsValue(Fold(input.left)) /\ IsAST(Fold(input.right))) =>
              (result = IntV(0) <=> PyEq(Fold(input.left), IntV(0)))
        /\ (/\ input.op \in {"Div", "Pow"}
            /\ IsAST(Fold(input.left)) /\ IsValue(Fold(input.right))) =>
              (result = Fold(input.left) <=> PyEq(Fold(input.right), IntV(1)))

AnyOperand(e) == TRUE

\* C7 as written: for every operand expression x, fold(x + 0) = fold(x),
\* fold(0 + x) = fold(x), fold(x * 0) = 0, fold(x * 1) = fold(x), fold(x - 0) =
\* fold(x) and fold(0 - x) = negate(fold(x)); the left-specific shortcuts fire only
\* on a left literal 0 and the right-specific ones only on a right literal 1.
C7_IdentitiesEveryOperand == Identities(AnyOperand) /\ ShortcutsOnlyOn

\* C7: for every operand expression x whose fold is a number or a residual node,
\* fold(x + 0), fold(0 + x), fold(x * 1) and fold(x - 0) equal fold(x), fold(x * 0)
\* equals 0 and fold(0 - x) is the negation of fold(x), values compared as a == b;
\* with exactly one literal operand, divide, floor-divide, power and modulo give 0
\* exactly when the left operand equals 0, and divide and power give the left
\* operand exactly when the right operand equals 1.
C7_IdentitiesNumericOperand == Identities(Numeric) /\ ShortcutsOnlyOn

\* 0 - u folds to -u
C7_ZeroMinusName ==
    /\ FoldedRaw /\ input = BinOp(Zero, "Sub", Name("u"))
    /\ result = UnaryOp("USub", Name("u"))

\* C8: the identities of the boolean operators: fold(True or x) = True,
\* fold(False and x) = False, fold(x or False) = fold(x), fold(x and True) = fold(x),
\* for every operand expression x; with every operand eliminated the result is
\* false for or and true for and.
C8_BooleanIdentities ==
    (FoldedRaw /\ input.t = "BoolOp" /\ Len(input.values) = 2) =>
        LET a == input.values[1]
            b == input.values[2]
        IN  /\ (input.op = "Or" /\ a = NameConstant(BoolV(TRUE))) => result = BoolV(TRUE)
            /\ (input.op = "And" /\ a = NameConstant(BoolV(FALSE))) => result = BoolV(FALSE)
            /\ (input.op = "Or" /\ b = NameConstant(BoolV(FALSE))) => Equal(result, Fold(a))
            /\ (input.op = "And" /\ b = NameConstant(BoolV(TRUE))) => Equal(result, Fold(a))
            /\ (input.op = "Or" /\ a = b /\ a = NameConstant(BoolV(FALSE))) => result = BoolV(FALSE)
            /\ (input.op = "And" /\ a = b /\ a = NameConstant(BoolV(TRUE))) => result = BoolV(TRUE)

\* C9: folding a Subscript node never raises: it returns the item found or the
\* original node, and the original node when the target has no indexable, when the
\* index stays a residual node or is a slice, and when the lookup misses.
C9_SubscriptNeverRaises ==
    (FoldedRaw /\ input.t = "Subscript") =>
        /\ ~IsRaise(result)
        /\ resolve_indexable(input.value, ctxt) = NoneV => result = input
        /\ (input.slice = Slice \/ IsAST(Fold(input.slice))) => result = node

\* C10: the fold with give_raw_result false returns a node whose every child
\* position holds a node, never a raw literal value.
C10_ResidualWellFormed ==
    (pc = "done" /\ op = "resolve_literal" /\ IsAST(input) /\ ~IsRaise(result)) =>
        WellFormed(result)

====
